---- MODULE Spec2Model ----
(***************************************************************************)
(* Model of elfa_analytics.py: a Streamlit script that is re-executed top  *)
(* to bottom on every user interaction of a session.  Each execution binds *)
(* the cached toolkit handle, stops if it is None, renders the form of the *)
(* selected analysis option and, when that form's button was pressed, runs *)
(* the button's handler: build the JSON payload, look the tool up by name  *)
(* in the tool list, and block in asyncio.run on tool._arun(payload).      *)
(***************************************************************************)
EXTENDS Integers, Sequences, FiniteSets

VARIABLES
    env,             \* platform of the process: time zone / C library
    cache,           \* st.cache_resource entry of init_solana: <<>> or <<result>>
    initLog,         \* results of the executions of init_solana's body, in order
    solana_kit,      \* module-level binding of the latest run ("unbound" before one)
    tools,           \* module-level binding of the latest run: set of tool names
    analysis_option, \* value of the selectbox in the latest run
    form,            \* widget values read by the handler of the latest run (<<>> if none ran)
    payload,         \* the json.dumps argument built by the latest run (<<>> if none)
    outcome,         \* how the latest run ended / where it is blocked
    errors,          \* st.error messages of the latest run
    infos,           \* st.info messages of the latest run
    phase,           \* "idle": waiting for the user; "awaiting": blocked in asyncio.run
    inflight,        \* tool._arun coroutines started and not yet completed
    invoked,         \* the tool._arun call made by the latest run: <<[name, payload]>> or <<>>
    arun_calls,      \* number of tool._arun calls made so far
    accepted,        \* number of submits that passed validation and found their tool
    resubmitted,     \* the latest run repeated the tool call of the run before it
    erred            \* some earlier submit ended in an error

vars == <<env, cache, initLog, solana_kit, tools, analysis_option, form, payload,
          outcome, errors, infos, phase, inflight, invoked, arun_calls, accepted,
          resubmitted, erred>>

\* ---------------------------------------------------------------- bounds
MaxInvocations == 2   \* tool calls per behaviour
MaxInits == 2         \* executions of init_solana's body per behaviour

\* ---------------------------------------------------------------- inputs
SmartMentions == "Get Smart Mentions"
TopMentions == "Get Top Mentions by Ticker"
SearchMentions == "Search Mentions by Keywords"
TrendingTokens == "Get Trending Tokens"
TwitterStats == "Get Twitter Stats"

Options == {SmartMentions, TopMentions, SearchMentions, TrendingTokens, TwitterStats}

ToolNames == {"elfa_ai_get_smart_mentions", "elfa_ai_get_top_mentions_by_ticker",
              "elfa_ai_search_mentions_by_keywords", "elfa_ai_get_trending_tokens",
              "elfa_ai_get_smart_twitter_account_stats"}

\* Platforms: UTC on POSIX; a zone whose clocks go forward one hour at the
\* start of day 1 (POSIX); UTC on a C library that rejects pre-epoch times.
Envs == {"utc", "dst", "utc_no_pre_epoch"}

\* Calendar dates as day numbers relative to 1970-01-01.
DateInputs == {-1, 0, 1, 31}
LimitInputs == {5, 19, 20, 25, 30, 31, 45}
KeywordInputs == {"sol"}

\* What get_elfaai_tools may return: any list of tools (here: the set of names).
Registries == SUBSET ToolNames
InitResults == {[kit |-> "kit", tools |-> r] : r \in Registries}
                 \cup {[kit |-> "None", tools |-> {}]}

\* ---------------------------------------------------------------- helpers
one_day == 86400
thirty_days == 30 * one_day

\* datetime.datetime.combine(d, datetime.time()).timestamp(): local midnight.
UtcOffset(d, e) == IF e = "dst" /\ d >= 1 THEN 3600 ELSE 0
CanConvert(d, e) == ~(e = "utc_no_pre_epoch" /\ d < 0)
Timestamp(d, e) == d * 86400 - UtcOffset(d, e)

RangeOk_Strict(from_ts, to_ts) ==
    one_day < (to_ts - from_ts) /\ (to_ts - from_ts) < thirty_days
RangeOk(from_ts, to_ts) == one_day <= (to_ts - from_ts) /\ (to_ts - from_ts) <= thirty_days

ClampLimit_NoUpper(requested_limit) ==
    IF requested_limit < 20 THEN 20 ELSE requested_limit
ClampLimit(requested_limit) ==
    IF requested_limit < 20 THEN 20
    ELSE IF requested_limit > 30 THEN 30
    ELSE requested_limit

ClampNotice(requested_limit) ==
    IF requested_limit < 20 THEN {"Limit below minimum; using 20."}
    ELSE IF requested_limit > 30 THEN {"Limit above maximum; using 30."}
    ELSE {}

ToolNameOf_CopyPaste(option) ==
    CASE option = SmartMentions -> "elfa_ai_get_smart_mentions"
      [] option = TopMentions -> "elfa_ai_get_top_mentions_by_ticker"
      [] option = SearchMentions -> "elfa_ai_search_mentions_by_keywords"
      [] option = TrendingTokens -> "elfa_ai_get_top_mentions_by_ticker"
      [] option = TwitterStats -> "elfa_ai_get_smart_twitter_account_stats"
ToolNameOf(option) ==
    CASE option = SmartMentions -> "elfa_ai_get_smart_mentions"
      [] option = TopMentions -> "elfa_ai_get_top_mentions_by_ticker"
      [] option = SearchMentions -> "elfa_ai_search_mentions_by_keywords"
      [] option = TrendingTokens -> "elfa_ai_get_trending_tokens"
      [] option = TwitterStats -> "elfa_ai_get_smart_twitter_account_stats"

NotFoundMessage(option) ==
    CASE option = SmartMentions -> "Smart Mentions tool not found."
      [] option = TopMentions -> "Top Mentions tool not found."
      [] option = SearchMentions -> "Search Mentions tool not found."
      [] option = TrendingTokens -> "Trending Tokens tool not found."
      [] option = TwitterStats -> "Twitter Stats tool not found."

smart_mentions_input(f) == [limit |-> f.limit, offset |-> f.offset]

top_mentions_input(f) ==
    [ticker |-> f.ticker, time_window |-> f.time_window, page |-> f.page,
     page_size |-> f.page_size, include_account_details |-> f.include_details]

search_mentions_input(f, e) ==
    [keywords |-> f.keywords,
     from_timestamp |-> Timestamp(f.from_date, e),
     to_timestamp |-> Timestamp(f.to_date, e),
     limit |-> ClampLimit(f.limit_input),
     cursor |-> ""]

trending_tokens_input(f) ==
    [time_window |-> f.time_window, page |-> f.page, page_size |-> f.page_size,
     min_mentions |-> f.min_mentions]

twitter_stats_input(f) == [username |-> f.username]

\* next((t for t in tools if t.name == name), None)
LookupTool_First(registry, name) ==
    IF registry # {} THEN <<CHOOSE t \in registry : TRUE>> ELSE <<>>
LookupTool(registry, name) == IF name \in registry THEN <<name>> ELSE <<>>

\* @st.cache_resource: the body of init_solana runs only when there is no
\* entry; nothing in the script ever clears the entry.
CacheHit_Never == FALSE
CacheHit_LostOnError == cache # <<>> /\ ~erred
CacheHit == cache # <<>>

\* @st.cache_resource stores whatever the body returns, (None, None) included:
\* the body catches its own exception and returns normally.
StoreResult_SkipNone(r) == IF r.kit = "None" THEN <<>> ELSE <<r>>
StoreResult(r) == <<r>>

\* run_async(coro) = asyncio.run(coro): start the coroutine and block on it.
\* `previous` is the call of the run before (nothing is remembered of it).
run_async_memo(calls, flying, call, previous) ==
    IF previous = <<call>>
    THEN [phase |-> "idle", outcome |-> "json", inflight |-> flying, calls |-> calls]
    ELSE [phase |-> "awaiting", outcome |-> "awaiting",
          inflight |-> Append(flying, call), calls |-> calls + 1]
run_async_detached(calls, flying, call, previous) ==
    [phase |-> "idle", outcome |-> "json",
     inflight |-> Append(flying, call), calls |-> calls + 1]
run_async(calls, flying, call, previous) ==
    [phase |-> "awaiting", outcome |-> "awaiting",
     inflight |-> Append(flying, call), calls |-> calls + 1]

\* ---------------------------------------------------------------- state machine
Init ==
    /\ env \in Envs
    /\ cache = <<>>
    /\ initLog = <<>>
    /\ solana_kit = "unbound"
    /\ tools = {}
    /\ analysis_option = SmartMentions
    /\ form = <<>>
    /\ payload = <<>>
    /\ outcome = "none"
    /\ errors = {}
    /\ infos = {}
    /\ phase = "idle"
    /\ inflight = <<>>
    /\ invoked = <<>>
    /\ arun_calls = 0
    /\ accepted = 0
    /\ resubmitted = FALSE
    /\ erred = FALSE

\* Lines 112-127: bind the handle from the cache, running the body on a miss.
ModuleTop ==
    /\ phase = "idle"
    /\ IF CacheHit
       THEN /\ cache' = cache
            /\ initLog' = initLog
            /\ solana_kit' = cache[1].kit
            /\ tools' = cache[1].tools
       ELSE /\ Len(initLog) < MaxInits
            /\ \E r \in InitResults :
                 /\ cache' = StoreResult(r)
                 /\ initLog' = Append(initLog, r)
                 /\ solana_kit' = r.kit
                 /\ tools' = r.tools
    /\ UNCHANGED env

\* st.stop() at line 127: nothing below runs.
StoppedAtInit ==
    /\ solana_kit' # "kit"
    /\ form' = <<>> /\ payload' = <<>> /\ invoked' = <<>>
    /\ outcome' = "stopped_init"
    /\ errors' = {"Error initializing AgentiPy"} /\ infos' = {}
    /\ resubmitted' = FALSE
    /\ UNCHANGED <<analysis_option, phase, inflight, arun_calls, accepted, erred>>

\* The form of the selected option is rendered and no button was pressed.
RenderOnly(option) ==
    /\ analysis_option' = option
    /\ form' = <<>> /\ payload' = <<>> /\ invoked' = <<>>
    /\ outcome' = "rendered"
    /\ errors' = {} /\ infos' = {}
    /\ resubmitted' = FALSE
    /\ UNCHANGED <<phase, inflight, arun_calls, accepted, erred>>

\* The run ends in the handler with an st.error message and no tool call.
EndWithError(f, p, how, messages, notes) ==
    /\ form' = <<f>> /\ payload' = p /\ invoked' = <<>>
    /\ outcome' = how
    /\ errors' = messages /\ infos' = notes
    /\ erred' = TRUE
    /\ resubmitted' = FALSE
    /\ UNCHANGED <<analysis_option, phase, inflight, arun_calls, accepted>>

\* Tool lookup and invocation, the same in the five handlers.
Dispatch(f, p, notes) ==
    LET name == ToolNameOf(analysis_option)
        tool == LookupTool(tools', name)
    IN  IF tool # <<>>
        THEN LET call == [name |-> tool[1], payload |-> p]
                 r == run_async(arun_calls, inflight, call, invoked)
             IN  /\ arun_calls < MaxInvocations
                 /\ form' = <<f>> /\ payload' = <<p>> /\ invoked' = <<call>>
                 /\ errors' = {} /\ infos' = notes
                 /\ phase' = r.phase /\ outcome' = r.outcome
                 /\ inflight' = r.inflight /\ arun_calls' = r.calls
                 /\ accepted' = accepted + 1
                 /\ resubmitted' = (invoked = <<call>>)
                 /\ UNCHANGED <<analysis_option, erred>>
        ELSE EndWithError(f, <<p>>, "not_found", {NotFoundMessage(analysis_option)}, notes)

\* The widgets of `option` are on the page: the latest run rendered them.
Rendered(option) ==
    /\ solana_kit = "kit"
    /\ outcome \notin {"none", "stopped_init"}
    /\ analysis_option = option

\* First load of the page, or a rerun without any widget change.
Load ==
    /\ ModuleTop
    /\ \/ StoppedAtInit
       \/ solana_kit' = "kit" /\ RenderOnly(analysis_option)

\* The user picks another analysis option in the selectbox.
Select ==
    /\ solana_kit = "kit" /\ outcome \notin {"none", "stopped_init"}
    /\ ModuleTop
    /\ \/ StoppedAtInit
       \/ /\ solana_kit' = "kit"
          /\ \E option \in Options \ {analysis_option} : RenderOnly(option)

SubmitSmartMentions ==
    /\ Rendered(SmartMentions)
    /\ ModuleTop
    /\ \/ StoppedAtInit
       \/ /\ solana_kit' = "kit"
          /\ \E limit \in {5}, offset \in {0, 1} :
               LET f == [limit |-> limit, offset |-> offset]
               IN  Dispatch(f, smart_mentions_input(f), {})

SubmitTopMentions ==
    /\ Rendered(TopMentions)
    /\ ModuleTop
    /\ \/ StoppedAtInit
       \/ /\ solana_kit' = "kit"
          /\ \E ticker \in {"SOL"}, include_details \in BOOLEAN :
               LET f == [ticker |-> ticker, time_window |-> "1h", page |-> 1,
                         page_size |-> 5, include_details |-> include_details]
               IN  Dispatch(f, top_mentions_input(f), {})

SubmitSearchMentions ==
    /\ Rendered(SearchMentions)
    /\ ModuleTop
    /\ \/ StoppedAtInit
       \/ /\ solana_kit' = "kit"
          /\ \E keywords \in KeywordInputs, from_date \in DateInputs,
                to_date \in DateInputs, limit_input \in LimitInputs :
               LET f == [keywords |-> keywords, from_date |-> from_date,
                         to_date |-> to_date, limit_input |-> limit_input]
               IN  IF ~(CanConvert(from_date, env) /\ CanConvert(to_date, env))
                   THEN EndWithError(f, <<>>, "date_error", {"Date error"}, {})
                   ELSE IF ~RangeOk(Timestamp(from_date, env), Timestamp(to_date, env))
                   THEN EndWithError(f, <<>>, "range_error",
                                     {"Error: Date range must be between 1 and 30 days."}, {})
                   ELSE Dispatch(f, search_mentions_input(f, env), ClampNotice(limit_input))

SubmitTrendingTokens ==
    /\ Rendered(TrendingTokens)
    /\ ModuleTop
    /\ \/ StoppedAtInit
       \/ /\ solana_kit' = "kit"
          /\ \E time_window \in {"24h"}, min_mentions \in {5, 6} :
               LET f == [time_window |-> time_window, page |-> 1, page_size |-> 10,
                         min_mentions |-> min_mentions]
               IN  Dispatch(f, trending_tokens_input(f), {})

SubmitTwitterStats ==
    /\ Rendered(TwitterStats)
    /\ ModuleTop
    /\ \/ StoppedAtInit
       \/ /\ solana_kit' = "kit"
          /\ \E username \in {"", "elfa_ai"} :
               LET f == [username |-> username]
               IN  Dispatch(f, twitter_stats_input(f), {})

\* tool._arun returns: asyncio.run returns the result and st.json displays it.
ToolReturns ==
    /\ inflight # <<>>
    /\ inflight' = Tail(inflight)
    /\ phase' = "idle"
    /\ outcome' = "json"
    /\ UNCHANGED <<env, cache, initLog, solana_kit, tools, analysis_option, form,
                   payload, errors, infos, invoked, arun_calls, accepted,
                   resubmitted, erred>>

\* tool._arun raises: no handler has a try around run_async, so the exception
\* leaves the script unhandled; the run is over, nothing was shown with
\* st.error, and the session accepts the next action.
ToolRaises ==
    /\ inflight # <<>>
    /\ inflight' = Tail(inflight)
    /\ phase' = "idle"
    /\ outcome' = "unhandled_exception"
    /\ erred' = TRUE
    /\ UNCHANGED <<env, cache, initLog, solana_kit, tools, analysis_option, form,
                   payload, errors, infos, invoked, arun_calls, accepted, resubmitted>>

Next ==
    \/ Load
    \/ Select
    \/ SubmitSmartMentions
    \/ SubmitTopMentions
    \/ SubmitSearchMentions
    \/ SubmitTrendingTokens
    \/ SubmitTwitterStats
    \/ ToolReturns
    \/ ToolRaises

Spec == Init /\ [][Next]_vars

\* ---------------------------------------------------------------- properties
\* The latest run executed a button handler.
SubmitRan == form # <<>>
SearchRan == SubmitRan /\ analysis_option = SearchMentions
\* The latest run made a tool._arun call.
ToolCalled == invoked # <<>>
\* Both dates of the latest Search submit were converted to timestamps.
Converted == SearchRan /\ outcome # "date_error"
Span == Timestamp(form[1].to_date, env) - Timestamp(form[1].from_date, env)
SpanInRange == 86400 <= Span /\ Span <= 2592000
RangeErrorShown == "Error: Date range must be between 1 and 30 days." \in errors

\* The tool name and payload fields the table of section 4.2 lists per query type.
ListedTool ==
    [o \in Options |->
       CASE o = SmartMentions -> "elfa_ai_get_smart_mentions"
         [] o = TopMentions -> "elfa_ai_get_top_mentions_by_ticker"
         [] o = SearchMentions -> "elfa_ai_search_mentions_by_keywords"
         [] o = TrendingTokens -> "elfa_ai_get_trending_tokens"
         [] o = TwitterStats -> "elfa_ai_get_smart_twitter_account_stats"]
ListedFields ==
    [o \in Options |->
       CASE o = SmartMentions -> {"limit", "offset"}
         [] o = TopMentions -> {"ticker", "time_window", "page", "page_size",
                                "include_account_details"}
         [] o = SearchMentions -> {"keywords", "from_timestamp", "to_timestamp",
                                   "limit", "cursor"}
         [] o = TrendingTokens -> {"time_window", "page", "page_size", "min_mentions"}
         [] o = TwitterStats -> {"username"}]
\* The value the form of the latest submit holds for each payload field that
\* has a widget (a date counts as its midnight timestamp).
Entered ==
    LET f == form[1]
    IN  CASE analysis_option = SmartMentions -> [limit |-> f.limit, offset |-> f.offset]
          [] analysis_option = TopMentions ->
               [ticker |-> f.ticker, time_window |-> f.time_window, page |-> f.page,
                page_size |-> f.page_size, include_account_details |-> f.include_details]
          [] analysis_option = SearchMentions ->
               [keywords |-> f.keywords,
                from_timestamp |-> Timestamp(f.from_date, env),
                to_timestamp |-> Timestamp(f.to_date, env),
                limit |-> f.limit_input]
          [] analysis_option = TrendingTokens ->
               [time_window |-> f.time_window, page |-> f.page,
                page_size |-> f.page_size, min_mentions |-> f.min_mentions]
          [] analysis_option = TwitterStats -> [username |-> f.username]
\* The latest submit passed every check its handler makes before the lookup.
PassedValidation ==
    analysis_option = SearchMentions =>
        /\ CanConvert(form[1].from_date, env) /\ CanConvert(form[1].to_date, env)
        /\ SpanInRange
InitFailed == \E i \in 1..Len(initLog) : initLog[i].kit = "None"

\* C1 as stated: once both timestamps are derived, the search tool is invoked
\* iff 86400 <= to_ts - from_ts <= 2592000, and otherwise the range error is
\* shown.
C1_InvokedIffInRange ==
    Converted => /\ ToolCalled <=> SpanInRange
                 /\ ~ToolCalled => RangeErrorShown

\* C1 amended: once both timestamps are derived, the request is dispatched
\* (payload built, tool looked up) iff 86400 <= to_ts - from_ts <= 2592000, the
\* range error is shown iff it is not, and the tool is invoked iff the span is
\* in range and the registry holds the search tool.
C1_DispatchedIffInRange ==
    Converted => /\ payload # <<>> <=> SpanInRange
                 /\ RangeErrorShown <=> ~SpanInRange
                 /\ ToolCalled <=> (SpanInRange /\ ListedTool[SearchMentions] \in tools)
                 /\ ToolCalled => invoked[1].name = ListedTool[SearchMentions]

C1_Witness ==
    /\ Converted /\ ToolCalled /\ outcome = "json"
    /\ Span = 2592000

\* C2: a Search submit with a valid date range carries limit 20 if L < 20, 30
\* if L > 30 and L otherwise; a notice is emitted exactly when the limit was
\* changed; the clamped request goes on to the lookup and, the tool being
\* registered, is invoked with the adjusted value.
C2_LimitClamped ==
    (Converted /\ SpanInRange) =>
        LET L == form[1].limit_input
            adjusted == IF L < 20 THEN 20 ELSE IF L > 30 THEN 30 ELSE L
        IN  /\ payload # <<>>
            /\ payload[1].limit = adjusted
            /\ infos # {} <=> (L < 20 \/ L > 30)
            /\ RangeErrorShown = FALSE
            /\ ListedTool[SearchMentions] \in tools =>
                   ToolCalled /\ invoked[1].payload.limit = adjusted

C2_Witness ==
    /\ Converted /\ ToolCalled
    /\ form[1].limit_input = 45 /\ invoked[1].payload.limit = 30 /\ infos # {}

\* C3 as stated: every invocation goes to the listed tool name with exactly the
\* listed payload fields, each carrying the value entered in the form.
C3_PayloadCarriesEntered ==
    ToolCalled =>
        /\ invoked[1].name = ListedTool[analysis_option]
        /\ DOMAIN invoked[1].payload = ListedFields[analysis_option]
        /\ \A k \in DOMAIN Entered : invoked[1].payload[k] = Entered[k]

\* C3 amended: every invocation goes to the listed tool name with exactly the
\* listed payload fields, each carrying the value entered in the form, except
\* that Search Mentions carries its limit clamped into 20..30 and an empty
\* cursor.
C3_PayloadShape ==
    ToolCalled =>
        /\ invoked[1].name = ListedTool[analysis_option]
        /\ DOMAIN invoked[1].payload = ListedFields[analysis_option]
        /\ \A k \in DOMAIN Entered :
             \/ invoked[1].payload[k] = Entered[k]
             \/ /\ analysis_option = SearchMentions /\ k = "limit"
                /\ invoked[1].payload[k] =
                     (IF Entered[k] < 20 THEN 20 ELSE IF Entered[k] > 30 THEN 30
                      ELSE Entered[k])
        /\ analysis_option = SearchMentions => invoked[1].payload.cursor = ""

C3_Witness ==
    /\ ToolCalled /\ analysis_option = TrendingTokens
    /\ invoked[1] = [name |-> "elfa_ai_get_trending_tokens",
                     payload |-> [time_window |-> "24h", page |-> 1,
                                  page_size |-> 10, min_mentions |-> 5]]

\* C4: a failure raised by the tool invocation is caught by the handler and
\* shown as an error message, never left unhandled.
C4_FailureCaught == outcome # "unhandled_exception"

\* C5 as stated: a submit whose tool is not in the registry ends with the
\* "tool not found" error, no invocation and no unhandled fault.
C5_MissingToolReported ==
    (SubmitRan /\ ListedTool[analysis_option] \notin tools) =>
        /\ outcome = "not_found"
        /\ errors = {NotFoundMessage(analysis_option)}
        /\ ~ToolCalled

\* C5 amended: a submit whose tool is not in the registry makes no invocation
\* and raises no unhandled fault, and ends with the "tool not found" error
\* whenever it passed the checks made before the lookup (for Search Mentions:
\* the date conversion and the date range); otherwise it ends with that
\* check's error.
C5_MissingToolBlocks ==
    (SubmitRan /\ ListedTool[analysis_option] \notin tools) =>
        /\ ~ToolCalled
        /\ inflight = <<>>
        /\ outcome \in {"not_found", "date_error", "range_error"}
        /\ outcome = "not_found" <=> PassedValidation
        /\ outcome = "not_found" => errors = {NotFoundMessage(analysis_option)}

C5_Witness ==
    /\ SubmitRan /\ tools = {} /\ analysis_option = TwitterStats
    /\ outcome = "not_found" /\ errors = {"Twitter Stats tool not found."}

\* C6: once init_solana has failed, every run stops before the selector: no
\* form is processed and no tool is ever invoked.
C6_FailedInitIsFatal ==
    InitFailed => /\ outcome = "stopped_init"
                  /\ solana_kit = "None"
                  /\ form = <<>> /\ payload = <<>>
                  /\ arun_calls = 0 /\ accepted = 0 /\ inflight = <<>>

C6_Witness == InitFailed /\ outcome = "stopped_init" /\ cache # <<>>

\* C7: after an error in a submit the handle and the tool list are still those
\* of the first initialization, and a submit with valid inputs whose tool is
\* registered is dispatched to its tool with its payload.
C7_UsableAfterError ==
    erred =>
        /\ cache = <<initLog[1]>>
        /\ solana_kit = initLog[1].kit /\ tools = initLog[1].tools
        /\ (SubmitRan /\ PassedValidation /\ ListedTool[analysis_option] \in initLog[1].tools)
             => /\ ToolCalled
                /\ invoked[1] = [name |-> ListedTool[analysis_option], payload |-> payload[1]]
                /\ outcome \in {"awaiting", "json", "unhandled_exception"}

C7_Witness == erred /\ ToolCalled /\ outcome = "json" /\ arun_calls = 1

\* C8: every submit that passed validation and found its tool made one new
\* invocation, also when it repeats the call of the run before it.
C8_NoCaching ==
    /\ arun_calls = accepted
    /\ resubmitted => (ToolCalled /\ arun_calls >= 2)
    /\ outcome = "awaiting" => inflight = invoked

C8_Witness == resubmitted /\ arun_calls = 2 /\ outcome = "awaiting"

\* C9: the body of init_solana runs at most once, and every run binds the
\* handle and tool list that execution produced.
C9_InitOnce ==
    /\ Len(initLog) <= 1
    /\ solana_kit # "unbound" =>
         /\ Len(initLog) = 1
         /\ solana_kit = initLog[1].kit /\ tools = initLog[1].tools

C9_Witness == Len(initLog) = 1 /\ arun_calls = 2 /\ ToolCalled

\* C10: at most one invocation is in flight, the session is blocked exactly
\* while one is, and a step starts at most one invocation.
C10_OneInFlight ==
    /\ [](/\ Len(inflight) <= 1
          /\ phase = "idle" <=> inflight = <<>>)
    /\ [][/\ arun_calls' <= arun_calls + 1
          /\ Len(inflight') <= Len(inflight) + 1
          /\ inflight # <<>> => arun_calls' = arun_calls]_vars

C10_Witness == phase = "awaiting" /\ Len(inflight) = 1 /\ arun_calls = 2

====
